---- MODULE Spec2Model ----
(***************************************************************************)
(* Model of data_profile.py: a Streamlit script that reads three sheets of *)
(* one workbook with pandas, drops the first data row of each, joins them  *)
(* column-wise and hands the result to a profiling report and its viewer.  *)
(*                                                                         *)
(* A DataFrame is a record [columns, index, rows]: the column names, the   *)
(* row labels and the rows, the last two of equal length.  An optional     *)
(* value is a sequence of length 0 (absent) or 1 (present).  Every cell is *)
(* a string.  The variable workbook is absent until line 23 reads the path *)
(* and then holds what was found there: no file, or the workbook.          *)
(***************************************************************************)
EXTENDS Integers, Sequences, FiniteSets, TLC

VARIABLES pc, page, uploaded_file, use_example_file, workbook,
          vps5_crude_diet, vps5_yields, vps5_strmq, all_data, pr,
          displayed, warnings, err

vars == <<pc, page, uploaded_file, use_example_file, workbook,
          vps5_crude_diet, vps5_yields, vps5_strmq, all_data, pr,
          displayed, warnings, err>>

----------------------------------------------------------------------------
(* Bounds *)

\* largest number of data rows below the lowest header row of a sheet
MaxData == 2

\* header offsets 0..MaxHdr are tried when loadSection is checked as a function
MaxHdr == 6

----------------------------------------------------------------------------
(* Program constants *)

CrudeDietSheet == "VPS5 Crude Diet"
YieldsSheet == "VPS5 Yields"
StrmQSheet == "VPS5 StrmQ"
SheetNames == {CrudeDietSheet, YieldsSheet, StrmQSheet}

CrudeDietHeader == 5
YieldsHeader == 5
StrmQHeader == 6

\* the absent-value marker pandas fills in
NaN == "NaN"

None == <<>>
Some(x) == <<x>>

----------------------------------------------------------------------------
(* Inputs: the workbook on disk and the widget values *)

Cell(r, c) == ToString(r) \o "." \o ToString(c)

RawRow(r, w) == [c \in 1..w |-> Cell(r, c - 1)]

\* header rows found in a sheet: "A" is in every header, so the same name
\* occurs in several sheets, and one header has it twice
Headers == {<<"A">>, <<"A", "B">>, <<"A", "A">>}

\* a sheet of L rows (row numbers from 0) whose header row is row p
RawSheet(L, p, hdr) ==
    [r \in 1..L |-> IF r - 1 = p THEN hdr ELSE RawRow(r - 1, Len(hdr))]

SheetLens == {0} \cup (CrudeDietHeader..(StrmQHeader + 1 + MaxData))

\* the sheets whose header row is row p
SheetsAt(p) == {RawSheet(L, p, hdr) : L \in SheetLens, hdr \in Headers}

\* the header offset the script reads the sheet with
HeaderOf(name) == IF name = StrmQSheet THEN StrmQHeader ELSE CrudeDietHeader

\* a workbook holds some of the three sheets, each with its header row where
\* the script expects it (when the sheet is long enough to have that row)
Workbooks ==
    {[name \in d |-> IF name = CrudeDietSheet THEN a
                     ELSE IF name = YieldsSheet THEN b ELSE c] :
        d \in SUBSET SheetNames,
        a \in SheetsAt(HeaderOf(CrudeDietSheet)),
        b \in SheetsAt(HeaderOf(YieldsSheet)),
        c \in SheetsAt(HeaderOf(StrmQSheet))}

\* what is found at the path of lines 23-25: no file, or a workbook
Files == {None} \cup {Some(wb) : wb \in Workbooks}

EmptyFrame == [columns |-> <<>>, index |-> <<>>, rows |-> <<>>]

CsvFrame(name) ==
    [columns |-> <<name>>, index |-> <<0>>, rows |-> <<<<Cell(0, 0)>>>>]

Uploads == {None, Some("a.csv")}

----------------------------------------------------------------------------
(* pandas *)

\* number of occurrences of s[i] before position i
Earlier(s, i) == Cardinality({j \in 1..(i - 1) : s[j] = s[i]})

\* read_excel renames a repeated header cell: A, A.1, A.2, ...
Mangle(s) ==
    [i \in 1..Len(s) |->
        IF Earlier(s, i) = 0 THEN s[i]
        ELSE s[i] \o "." \o ToString(Earlier(s, i))]

\* a read that gives an empty table for a sheet the workbook does not have
ReadExcelMissingEmpty(wb, name, h) ==
    IF wb = None
    THEN [ok |-> FALSE, error |-> "FileNotFound", df |-> EmptyFrame]
    ELSE IF name \notin DOMAIN wb[1]
    THEN [ok |-> TRUE, error |-> "", df |-> EmptyFrame]
    ELSE LET sheet == wb[1][name] IN
         IF sheet = <<>>
         THEN [ok |-> TRUE, error |-> "", df |-> EmptyFrame]
         ELSE IF h > Len(sheet) - 1
         THEN [ok |-> FALSE, error |-> "HeaderIndexExceeds", df |-> EmptyFrame]
         ELSE LET n == Len(sheet) - (h + 1) IN
              [ok |-> TRUE, error |-> "",
               df |-> [columns |-> sheet[h + 1],
                       index |-> [i \in 1..n |-> i - 1],
                       rows |-> SubSeq(sheet, h + 2, Len(sheet))]]

\* pd.read_excel(path, sheet_name=name, header=[h])
ReadExcel(wb, name, h) ==
    IF wb = None
    THEN [ok |-> FALSE, error |-> "FileNotFound", df |-> EmptyFrame]
    ELSE IF name \notin DOMAIN wb[1]
    THEN [ok |-> FALSE, error |-> "SectionNotFound", df |-> EmptyFrame]
    ELSE LET sheet == wb[1][name] IN
         IF sheet = <<>>
         THEN [ok |-> TRUE, error |-> "", df |-> EmptyFrame]
         ELSE IF h > Len(sheet) - 1
         THEN [ok |-> FALSE, error |-> "HeaderIndexExceeds", df |-> EmptyFrame]
         ELSE LET n == Len(sheet) - (h + 1) IN
              [ok |-> TRUE, error |-> "",
               df |-> [columns |-> Mangle(sheet[h + 1]),
                       index |-> [i \in 1..n |-> i - 1],
                       rows |-> SubSeq(sheet, h + 2, Len(sheet))]]

\* df.iloc[3:, :], the variant of Iloc1 that drops two rows too many
Iloc3(df) ==
    [columns |-> df.columns,
     index |-> SubSeq(df.index, 3, Len(df.index)),
     rows |-> SubSeq(df.rows, 3, Len(df.rows))]

\* df.iloc[1:, :]
Iloc1(df) ==
    [columns |-> df.columns,
     index |-> SubSeq(df.index, 2, Len(df.index)),
     rows |-> SubSeq(df.rows, 2, Len(df.rows))]

\* a load that applies the row drop to the offset-5 sheets only
LoadSectionNoDrop6(wb, name, h) ==
    LET r == ReadExcel(wb, name, h) IN
    IF r.ok /\ h # StrmQHeader
    THEN [ok |-> TRUE, error |-> "", df |-> Iloc1(r.df)]
    ELSE r

\* pd.read_excel(...).iloc[1:, :]
LoadSection(wb, name, h) ==
    LET r == ReadExcel(wb, name, h) IN
    IF r.ok THEN [ok |-> TRUE, error |-> "", df |-> Iloc1(r.df)] ELSE r

\* the sequences ss[k], ss[k + 1], ... one after the other
RECURSIVE FlattenFrom(_, _)
FlattenFrom(ss, k) ==
    IF k > Len(ss) THEN <<>> ELSE ss[k] \o FlattenFrom(ss, k + 1)

Flatten(ss) == FlattenFrom(ss, 1)

Elems(s) == {s[i] : i \in 1..Len(s)}

\* the labels of s that are not in the set seen, in the order of s
NewLabels(s, seen) == SelectSeq(s, LAMBDA l : l \notin seen)

\* a union of the row labels that keeps every occurrence
UnionIndexesKeepAll(idxs) == Flatten(idxs)

\* the row labels of an outer join: the first index, then the labels each
\* later index adds
RECURSIVE UnionIndexesUpTo(_, _)
UnionIndexesUpTo(idxs, k) ==
    IF k = 0 THEN <<>>
    ELSE UnionIndexesUpTo(idxs, k - 1)
            \o NewLabels(idxs[k], Elems(UnionIndexesUpTo(idxs, k - 1)))

UnionIndexes(idxs) == UnionIndexesUpTo(idxs, Len(idxs))

\* the row of df labelled l, or a row of NaN when df has no such label
Reindex(df, l) ==
    IF l \in Elems(df.index)
    THEN df.rows[CHOOSE i \in 1..Len(df.index) : df.index[i] = l]
    ELSE [c \in 1..Len(df.columns) |-> NaN]

\* the labels every frame has: an inner join
CommonLabels(objs) ==
    IF objs = <<>> THEN <<>>
    ELSE SelectSeq(objs[1].index,
                   LAMBDA l : \A k \in 1..Len(objs) : l \in Elems(objs[k].index))

\* pd.concat(objs, axis=1, join='inner'): rows past the shortest frame are cut
ConcatInner(objs) ==
    LET index == CommonLabels(objs) IN
    [columns |-> Flatten([k \in 1..Len(objs) |-> objs[k].columns]),
     index |-> index,
     rows |-> [i \in 1..Len(index) |->
                 Flatten([k \in 1..Len(objs) |-> Reindex(objs[k], index[i])])]]

\* a column-wise join that keeps the first column of each name only
ConcatDedup(objs) ==
    LET cols == Flatten([k \in 1..Len(objs) |-> objs[k].columns])
        keep(s) == SelectSeq([i \in 1..Len(cols) |-> i],
                             LAMBDA i : Earlier(cols, i) = 0)
        index == UnionIndexes([k \in 1..Len(objs) |-> objs[k].index])
        row(i) == Flatten([k \in 1..Len(objs) |-> Reindex(objs[k], index[i])])
    IN [columns |-> [j \in 1..Len(keep(cols)) |-> cols[keep(cols)[j]]],
        index |-> index,
        rows |-> [i \in 1..Len(index) |->
                    [j \in 1..Len(keep(cols)) |-> row(i)[keep(cols)[j]]]]]

\* pd.concat(objs, axis=1)
Concat(objs) ==
    LET index == UnionIndexes([k \in 1..Len(objs) |-> objs[k].index]) IN
    [columns |-> Flatten([k \in 1..Len(objs) |-> objs[k].columns]),
     index |-> index,
     rows |-> [i \in 1..Len(index) |->
                 Flatten([k \in 1..Len(objs) |-> Reindex(objs[k], index[i])])]]

\* df.profile_report(): the report is opaque, it is known by its table
ProfileReport(df) == [table |-> df]

----------------------------------------------------------------------------
(* The script, one action per statement *)

Init ==
    /\ pc = "write"
    /\ page = <<>>
    /\ uploaded_file = None
    /\ use_example_file = FALSE
    /\ workbook = None
    /\ vps5_crude_diet = None
    /\ vps5_yields = None
    /\ vps5_strmq = None
    /\ all_data = None
    /\ pr = None
    /\ displayed = None
    /\ warnings = <<>>
    /\ err = ""

\* line 9: st.write(...)
Write ==
    /\ pc = "write"
    /\ page' = Append(page, "markdown")
    /\ pc' = "file_uploader"
    /\ UNCHANGED <<uploaded_file, use_example_file, workbook, vps5_crude_diet,
                   vps5_yields, vps5_strmq, all_data, pr, displayed, warnings,
                   err>>

\* line 16: uploaded_file = st.file_uploader(...)
FileUploader ==
    /\ pc = "file_uploader"
    /\ \E f \in Uploads : uploaded_file' = f
    /\ page' = Append(page, "file_uploader")
    /\ pc' = "checkbox"
    /\ UNCHANGED <<use_example_file, workbook, vps5_crude_diet, vps5_yields,
                   vps5_strmq, all_data, pr, displayed, warnings, err>>

\* line 18: use_example_file = st.checkbox(...)
Checkbox ==
    /\ pc = "checkbox"
    /\ \E b \in BOOLEAN : use_example_file' = b
    /\ page' = Append(page, "checkbox")
    /\ pc' = "load_crude_diet"
    /\ UNCHANGED <<uploaded_file, workbook, vps5_crude_diet, vps5_yields,
                   vps5_strmq, all_data, pr, displayed, warnings, err>>

\* line 23: the first read of the path; what is there is any of Files, and
\* it is the same for the reads of lines 24 and 25
LoadCrudeDiet ==
    /\ pc = "load_crude_diet"
    /\ \E f \in Files :
          /\ workbook' = Some(f)
          /\ LET r == LoadSection(f, CrudeDietSheet, CrudeDietHeader) IN
             \/ /\ r.ok
                /\ vps5_crude_diet' = Some(r.df)
                /\ pc' = "load_yields"
                /\ err' = err
             \/ /\ ~r.ok
                /\ vps5_crude_diet' = vps5_crude_diet
                /\ pc' = "failed"
                /\ err' = r.error
    /\ UNCHANGED <<page, uploaded_file, use_example_file, vps5_yields,
                   vps5_strmq, all_data, pr, displayed, warnings>>

\* a load of line 24 that falls back to an empty section when the read fails
LoadYieldsFallback ==
    /\ pc = "load_yields"
    /\ LET r == LoadSection(workbook[1], YieldsSheet, YieldsHeader) IN
       \/ /\ r.ok
          /\ vps5_yields' = Some(r.df)
          /\ pc' = "load_strmq"
          /\ err' = err
       \/ /\ ~r.ok
          /\ vps5_yields' = Some(EmptyFrame)
          /\ pc' = "load_strmq"
          /\ err' = r.error
    /\ UNCHANGED <<page, uploaded_file, use_example_file, workbook,
                   vps5_crude_diet, vps5_strmq, all_data, pr, displayed,
                   warnings>>

\* line 24
LoadYields ==
    /\ pc = "load_yields"
    /\ LET r == LoadSection(workbook[1], YieldsSheet, YieldsHeader) IN
       \/ /\ r.ok
          /\ vps5_yields' = Some(r.df)
          /\ pc' = "load_strmq"
          /\ err' = err
       \/ /\ ~r.ok
          /\ vps5_yields' = vps5_yields
          /\ pc' = "failed"
          /\ err' = r.error
    /\ UNCHANGED <<page, uploaded_file, use_example_file, workbook,
                   vps5_crude_diet, vps5_strmq, all_data, pr, displayed,
                   warnings>>

\* line 25
LoadStrmQ ==
    /\ pc = "load_strmq"
    /\ LET r == LoadSection(workbook[1], StrmQSheet, StrmQHeader) IN
       \/ /\ r.ok
          /\ vps5_strmq' = Some(r.df)
          /\ pc' = "concat"
          /\ err' = err
       \/ /\ ~r.ok
          /\ vps5_strmq' = vps5_strmq
          /\ pc' = "failed"
          /\ err' = r.error
    /\ UNCHANGED <<page, uploaded_file, use_example_file, workbook,
                   vps5_crude_diet, vps5_yields, all_data, pr, displayed,
                   warnings>>

\* line 27: all_data = pd.concat([...], axis=1)
ConcatStep ==
    /\ pc = "concat"
    /\ all_data' = Some(Concat(<<vps5_crude_diet[1], vps5_yields[1],
                                 vps5_strmq[1]>>))
    /\ pc' = "profile_report"
    /\ UNCHANGED <<page, uploaded_file, use_example_file, workbook,
                   vps5_crude_diet, vps5_yields, vps5_strmq, pr, displayed,
                   warnings, err>>

\* a line 30 that profiles the first section instead of the joined table
ProfileReportStepFirstSection ==
    /\ pc = "profile_report"
    /\ \/ /\ pr' = Some(ProfileReport(vps5_crude_diet[1]))
          /\ pc' = "st_profile_report"
          /\ err' = err
       \/ /\ pr' = pr
          /\ pc' = "failed"
          /\ err' = "ReportFailed"
    /\ UNCHANGED <<page, uploaded_file, use_example_file, workbook,
                   vps5_crude_diet, vps5_yields, vps5_strmq, all_data,
                   displayed, warnings>>

\* line 30: pr = all_data.profile_report(); the reporter returns or raises
ProfileReportStep ==
    /\ pc = "profile_report"
    /\ \/ /\ pr' = Some(ProfileReport(all_data[1]))
          /\ pc' = "st_profile_report"
          /\ err' = err
       \/ /\ pr' = pr
          /\ pc' = "failed"
          /\ err' = "ReportFailed"
    /\ UNCHANGED <<page, uploaded_file, use_example_file, workbook,
                   vps5_crude_diet, vps5_yields, vps5_strmq, all_data,
                   displayed, warnings>>

\* line 32: st_profile_report(pr)
StProfileReport ==
    /\ pc = "st_profile_report"
    /\ displayed' = pr
    /\ page' = Append(page, "profile_report")
    /\ pc' = "done"
    /\ UNCHANGED <<uploaded_file, use_example_file, workbook, vps5_crude_diet,
                   vps5_yields, vps5_strmq, all_data, pr, warnings, err>>

Next ==
    \/ Write
    \/ FileUploader
    \/ Checkbox
    \/ LoadCrudeDiet
    \/ LoadYields
    \/ LoadStrmQ
    \/ ConcatStep
    \/ ProfileReportStep
    \/ StProfileReport

Spec == Init /\ [][Next]_vars

\* the script runs to its end or to the statement that raises
FairSpec == Spec /\ WF_vars(Next)

----------------------------------------------------------------------------
(* Vocabulary of the properties *)

\* the three sections in the order line 27 joins them; defined once all
\* three are loaded
Loaded == <<vps5_crude_diet[1], vps5_yields[1], vps5_strmq[1]>>

AllLoaded == vps5_crude_diet # None /\ vps5_yields # None /\ vps5_strmq # None

RowCount(df) == Len(df.rows)

Width(df) == Len(df.columns)

MaxRowCount ==
    CHOOSE m \in {RowCount(Loaded[k]) : k \in 1..3} :
        \A k \in 1..3 : RowCount(Loaded[k]) <= m

\* number of columns of the joined table left of section k
Offset(k) ==
    IF k = 1 THEN 0
    ELSE IF k = 2 THEN Width(Loaded[1])
    ELSE Width(Loaded[1]) + Width(Loaded[2])

NaNRow(w) == [c \in 1..w |-> NaN]

\* row i of a section by position, a row of absent markers past its end
RowAt(df, i) == IF i <= RowCount(df) THEN df.rows[i] ELSE NaNRow(Width(df))

\* the path was read and the sheet has a row at offset h to be the header
HasHeader(name, h) ==
    /\ workbook # None
    /\ workbook[1] # None
    /\ name \in DOMAIN workbook[1][1]
    /\ h <= Len(workbook[1][1][name]) - 1

\* the rows of the sheet below the header row at offset h
DataRows(name, h) ==
    SubSeq(workbook[1][1][name], h + 2, Len(workbook[1][1][name]))

\* the loads the script performs
Loads == {<<CrudeDietSheet, CrudeDietHeader>>, <<YieldsSheet, YieldsHeader>>,
          <<StrmQSheet, StrmQHeader>>}

SectionOf(name) ==
    IF name = CrudeDietSheet THEN vps5_crude_diet
    ELSE IF name = YieldsSheet THEN vps5_yields
    ELSE vps5_strmq

\* the path was read, the workbook exists and has no sheet of that name
Missing(name) ==
    /\ workbook # None
    /\ workbook[1] # None
    /\ name \notin DOMAIN workbook[1][1]

\* the position of the statement that loads the sheet
LoadRank(name) ==
    IF name = CrudeDietSheet THEN 3 ELSE IF name = YieldsSheet THEN 4 ELSE 5

\* the sections before that of the sheet are loaded
Reached(name) ==
    IF name = CrudeDietSheet THEN TRUE
    ELSE IF name = YieldsSheet THEN vps5_crude_diet # None
    ELSE vps5_yields # None

LoadErrors == {"FileNotFound", "SectionNotFound", "HeaderIndexExceeds"}

Rank(p) ==
    CASE p = "write" -> 0
      [] p = "file_uploader" -> 1
      [] p = "checkbox" -> 2
      [] p = "load_crude_diet" -> 3
      [] p = "load_yields" -> 4
      [] p = "load_strmq" -> 5
      [] p = "concat" -> 6
      [] p = "profile_report" -> 7
      [] p = "st_profile_report" -> 8
      [] p = "done" -> 9
      [] p = "failed" -> 10

Count(s, x) == Cardinality({i \in 1..Len(s) : s[i] = x})

----------------------------------------------------------------------------
(* Properties *)

\* C1: the columns of the joined table are the columns of the Crude Diet
\* section, then those of the Yields section, then those of the StrmQ
\* section; a name that occurs in several sections occurs as often in the
\* result, nothing is merged, renamed, reordered or dropped.
C1_ColumnsConcatenated ==
    all_data # None =>
        /\ all_data[1].columns =
              Loaded[1].columns \o Loaded[2].columns \o Loaded[3].columns
        /\ \A i \in 1..Len(all_data[1].rows) :
              Len(all_data[1].rows[i]) =
                  Width(Loaded[1]) + Width(Loaded[2]) + Width(Loaded[3])

\* a joined table in which one column name occurs twice
C1_Witness ==
    /\ all_data # None
    /\ \E i, j \in 1..Len(all_data[1].columns) :
          i < j /\ all_data[1].columns[i] = all_data[1].columns[j]

\* C2: the joined table has as many rows as the longest section, and the
\* cells of a shorter section at the rows past its end hold the absent
\* marker.
C2_RowCountIsMax ==
    all_data # None =>
        /\ Len(all_data[1].rows) = MaxRowCount
        /\ Len(all_data[1].index) = MaxRowCount
        /\ \A k \in 1..3 :
           \A i \in (RowCount(Loaded[k]) + 1)..MaxRowCount :
           \A c \in 1..Width(Loaded[k]) :
              /\ i <= Len(all_data[1].rows)
              /\ all_data[1].rows[i][Offset(k) + c] = NaN

\* a joined table whose sections disagree on row count, the shorter one
\* having columns to pad
C2_Witness ==
    /\ all_data # None
    /\ \E k \in 1..3 :
          /\ RowCount(Loaded[k]) < MaxRowCount
          /\ Width(Loaded[k]) > 0

\* C3 as stated: a section whose sheet has n data rows below the header row
\* has n - 1 rows, for the three loads of the script and for every header
\* offset.
C3_AlwaysDropsOne ==
    /\ \A ld \in Loads :
          (SectionOf(ld[1]) # None /\ HasHeader(ld[1], ld[2])) =>
              RowCount(SectionOf(ld[1])[1]) = Len(DataRows(ld[1], ld[2])) - 1
    /\ \A name \in SheetNames : \A h \in 0..MaxHdr :
          (SectionOf(name) # None /\ HasHeader(name, h)) =>
              RowCount(LoadSection(workbook[1], name, h).df) =
                  Len(DataRows(name, h)) - 1

\* C3 amended: a section whose sheet has n >= 1 data rows below the header
\* row has n - 1 rows, the data rows 2..n in their order, whatever the
\* header offset; a sheet with no data row below the header gives a section
\* of no rows.
C3_DropsFirstDataRow ==
    /\ \A ld \in Loads :
          (SectionOf(ld[1]) # None /\ HasHeader(ld[1], ld[2])) =>
              LET n == Len(DataRows(ld[1], ld[2]))
                  s == SectionOf(ld[1])[1]
              IN /\ n >= 1 => RowCount(s) = n - 1
                 /\ n = 0 => RowCount(s) = 0
                 /\ \A i \in 1..RowCount(s) :
                       /\ i + 1 <= n
                       /\ s.rows[i] = DataRows(ld[1], ld[2])[i + 1]
    /\ \A name \in SheetNames : \A h \in 0..MaxHdr :
          (SectionOf(name) # None /\ HasHeader(name, h)) =>
              LET n == Len(DataRows(name, h))
                  r == LoadSection(workbook[1], name, h)
              IN /\ r.ok
                 /\ n >= 1 => RowCount(r.df) = n - 1
                 /\ n = 0 => RowCount(r.df) = 0
                 /\ \A i \in 1..RowCount(r.df) :
                       /\ i + 1 <= n
                       /\ r.df.rows[i] = DataRows(name, h)[i + 1]

\* the sections of offsets 5 and 6 are loaded and both kept rows after
\* losing their first
C3_Witness ==
    /\ AllLoaded
    /\ RowCount(vps5_crude_diet[1]) >= 2
    /\ RowCount(vps5_strmq[1]) >= 1

\* C4: row i of the joined table is row i of the Crude Diet section, then
\* row i of the Yields section, then row i of the StrmQ section, absent
\* markers standing for a section that has no row i; the sections keep the
\* labels 1, 2, ... after the drop of their first row.
C4_AlignedByPosition ==
    all_data # None =>
        /\ \A i \in 1..MaxRowCount :
              /\ i <= Len(all_data[1].rows)
              /\ all_data[1].rows[i] =
                    RowAt(Loaded[1], i) \o RowAt(Loaded[2], i)
                        \o RowAt(Loaded[3], i)
        /\ \A k \in 1..3 :
              Loaded[k].index = [i \in 1..RowCount(Loaded[k]) |-> i]

\* a joined table of two rows or more, every section contributing cells
C4_Witness ==
    /\ all_data # None
    /\ MaxRowCount >= 2
    /\ \A k \in 1..3 : RowCount(Loaded[k]) >= 1 /\ Width(Loaded[k]) >= 1
    /\ \E k \in 1..3 : RowCount(Loaded[k]) < MaxRowCount

\* C5: once a statement has raised the run is over: after a failed load
\* there is no joined table, no report and nothing displayed, and after any
\* failure no report is displayed.
C5_AllOrNothing ==
    /\ err # "" => (pc = "failed" /\ displayed = None
                    /\ Count(page, "profile_report") = 0)
    /\ err \in LoadErrors => (all_data = None /\ pr = None)
    /\ pc = "failed" => err # ""

\* a load failed after an earlier section had been loaded
C5_Witness ==
    /\ err \in LoadErrors
    /\ vps5_crude_diet # None
    /\ vps5_yields # None

\* C6: a load of a sheet name the workbook does not have fails with
\* SectionNotFound for every header offset and leaves no section: the run
\* stops at that load, with no section of that name and no joined table.
C6_SectionNotFound ==
    \A name \in SheetNames :
        Missing(name) =>
            /\ SectionOf(name) = None
            /\ all_data = None
            /\ Rank(pc) <= LoadRank(name) \/ pc = "failed"
            /\ (pc = "failed" /\ Reached(name)) =>
                  /\ err = "SectionNotFound"
                  /\ \A h \in 0..MaxHdr :
                        /\ ~LoadSection(workbook[1], name, h).ok
                        /\ LoadSection(workbook[1], name, h).error
                              = "SectionNotFound"

\* the run stopped at the load of a sheet the workbook does not have
C6_Witness ==
    /\ pc = "failed"
    /\ err = "SectionNotFound"
    /\ vps5_yields # None
    /\ StrmQSheet \notin DOMAIN workbook[1][1]

\* C7: no row label occurs twice in the table handed to the reporter, and
\* its columns are finitely many.
C7_UniqueRowIndex ==
    /\ all_data # None =>
          \A i, j \in 1..Len(all_data[1].index) :
              i # j => all_data[1].index[i] # all_data[1].index[j]
    /\ pr # None =>
          /\ \A i, j \in 1..Len(pr[1].table.index) :
                i # j => pr[1].table.index[i] # pr[1].table.index[j]
          /\ IsFiniteSet(DOMAIN pr[1].table.columns)

\* a report on a table of several rows, joined from sections of unequal
\* row counts one of which has no row
C7_Witness ==
    /\ pr # None
    /\ Len(pr[1].table.index) >= 2
    /\ \E k \in 1..3 : RowCount(Loaded[k]) = 0
    /\ \E k \in 1..3 : RowCount(Loaded[k]) = 1

\* C8: a joined table whose sections disagree on row count comes with a
\* ShapeMismatch warning.
C8_MismatchSignalled ==
    (all_data # None /\ \E k \in 1..3 : RowCount(Loaded[k]) < MaxRowCount)
        => "ShapeMismatch" \in Elems(warnings)

\* C9: with a file uploaded and the example checkbox off, the table handed
\* to the reporter is the table of the uploaded file.
C9_UploadSelectsSource ==
    (pr # None /\ uploaded_file # None /\ ~use_example_file)
        => pr[1].table = CsvFrame(uploaded_file[1])

\* C10: the statements run in the order of the script, each at most once:
\* the sections are loaded Crude Diet, Yields, StrmQ, the table is joined
\* from the three, the reporter gets the joined table, the viewer gets the
\* reporter's report, and a run in which nothing fails reaches the viewer.
C10_PipelineOrder ==
    /\ [][Rank(pc') > Rank(pc)]_vars
    /\ [](vps5_yields # None => vps5_crude_diet # None)
    /\ [](vps5_strmq # None => vps5_yields # None)
    /\ [](all_data # None => (AllLoaded /\ all_data[1] = Concat(Loaded)))
    /\ [](pr # None => (all_data # None /\ pr[1].table = all_data[1]))
    /\ [](displayed # None => (pr # None /\ displayed = pr))
    /\ [](Count(page, "profile_report") <= 1)
    /\ [][all_data # None => all_data' = all_data]_vars
    /\ [][pr # None => pr' = pr]_vars
    /\ <>(err # "" \/ (pc = "done" /\ displayed # None))

\* a run that displayed the report of a table joined from non-empty sections
C10_Witness ==
    /\ pc = "done"
    /\ displayed # None
    /\ Width(displayed[1].table) >= 3
    /\ Len(displayed[1].table.rows) >= 1

====
